---- MODULE Spec2Model ----
(***************************************************************************)
(* Model of src/discord/targets.ts: the Discord recipient parser           *)
(* (parseDiscordTarget), the channel-id helper (resolveDiscordChannelId),  *)
(* the directory-assisted resolver (resolveDiscordTarget) and the          *)
(* disambiguator (selectDiscordUserMatch).                                 *)
(*                                                                         *)
(* A JavaScript string is a sequence of one-character strings, so that     *)
(* trim, startsWith, slice, toLowerCase and the regular expressions are    *)
(* computed character by character.                                        *)
(***************************************************************************)
EXTENDS Integers, Sequences, FiniteSets, TLC

VARIABLES pc, call, trimmed, result, dirCalls, dirRequest, dirResponse

vars == <<pc, call, trimmed, result, dirCalls, dirRequest, dirResponse>>

(***************************************************************************)
(* Bounds of the model.                                                    *)
(***************************************************************************)
MaxBody == 2
MaxEntries == 2
MaxList == 2

(***************************************************************************)
(* Strings.                                                                *)
(***************************************************************************)
Empty == <<>>
\* the value of an absent optional string (undefined); no string equals it
Absent == <<"undefined">>

UserPrefix == <<"u", "s", "e", "r", ":">>
ChannelPrefix == <<"c", "h", "a", "n", "n", "e", "l", ":">>
DiscordPrefix == <<"d", "i", "s", "c", "o", "r", "d", ":">>
AtSigil == <<"@">>
MentionOpen == <<"<", "@">>
MentionOpenBang == <<"<", "@", "!">>

IsSpace(c) == c = " "

IsDigit(c) == c \in {"0", "1", "2", "3", "4", "5", "6", "7", "8", "9"}

UpperToLower == [A |-> "a", E |-> "e", R |-> "r", S |-> "s", U |-> "u"]

LowerChar(c) == IF c \in DOMAIN UpperToLower THEN UpperToLower[c] ELSE c

\* String.prototype.toLowerCase
ToLowerCase(s) == [i \in 1..Len(s) |-> LowerChar(s[i])]

RECURSIVE TrimStart(_)
TrimStart(s) == IF s # Empty /\ IsSpace(Head(s)) THEN TrimStart(Tail(s)) ELSE s

RECURSIVE TrimEnd(_)
TrimEnd(s) ==
    IF s # Empty /\ IsSpace(s[Len(s)]) THEN TrimEnd(SubSeq(s, 1, Len(s) - 1)) ELSE s

\* String.prototype.trim
Trim(s) == TrimEnd(TrimStart(s))

\* String.prototype.startsWith
StartsWith(s, p) == Len(s) >= Len(p) /\ SubSeq(s, 1, Len(p)) = p

\* String.prototype.slice(n)
Slice(s, n) == SubSeq(s, n + 1, Len(s))

\* /^\d+$/
AllDigits(s) == Len(s) > 0 /\ \A i \in 1..Len(s) : IsDigit(s[i])

\* the capture group of /^<@!?(\d+)>$/ when the wrapper is present
MentionCapture(s) ==
    IF StartsWith(s, MentionOpenBang)
    THEN SubSeq(s, 4, Len(s) - 1)
    ELSE SubSeq(s, 3, Len(s) - 1)

\* /^<@!?(\d+)>$/
MentionMatch(s) ==
    /\ StartsWith(s, MentionOpen)
    /\ s[Len(s)] = ">"
    /\ AllDigits(MentionCapture(s))

(***************************************************************************)
(* Results of a call: a target, undefined, a returned id, or a thrown      *)
(* error.                                                                  *)
(***************************************************************************)
Undefined == [type |-> "undefined"]

Thrown(name, msg) == [type |-> "error", name |-> name, msg |-> msg]

Returned(id) == [type |-> "id", id |-> id]

IsTarget(r) == r.type = "target"

IsError(r) == r.type = "error"

\* buildMessagingTarget(kind, id, raw) of ../channels/targets.js
buildMessagingTarget(kind, id, raw) ==
    IF id = Empty
    THEN Thrown("EmptyTargetId", raw)
    ELSE [type |-> "target", kind |-> kind, id |-> id, raw |-> raw]

\* ensureTargetId({candidate, pattern: /^\d+$/, errorMessage}) of ../channels/targets.js
ensureTargetId(candidate) ==
    IF AllDigits(candidate)
    THEN Returned(candidate)
    ELSE Thrown("InvalidMentionFormat", candidate)

\* requireTargetKind({platform: "Discord", target, kind}) of ../channels/targets.js
requireTargetKind(target, kind) ==
    IF IsTarget(target) /\ target.kind = kind
    THEN Returned(target.id)
    ELSE Thrown("KindMismatch", <<"Discord", kind>>)

(***************************************************************************)
(* Parse options: defaultKind and ambiguousMessage, each optional.         *)
(***************************************************************************)
NoKind == "none"

CustomMessage == <<"m">>

ParseOptions ==
    [defaultKind : {NoKind, "user", "channel"}, ambiguousMessage : {Absent, CustomMessage}]

\* the thrown ambiguity error: options.ambiguousMessage ?? generic message
AmbiguityError(s, options) ==
    IF options.ambiguousMessage # Absent
    THEN Thrown("Ambiguous", <<"custom", options.ambiguousMessage>>)
    ELSE Thrown("Ambiguous", <<"generic", s>>)

\* the body of a prefix branch: id ? buildMessagingTarget(kind, id, trimmed) : undefined
PrefixedTarget(kind, t, prefix) ==
    LET id == Trim(Slice(t, Len(prefix)))
    IN  IF id # Empty THEN buildMessagingTarget(kind, id, t) ELSE Undefined

\* AtTarget without the check of the id pattern
AtTarget_Unchecked(t) == buildMessagingTarget("user", Trim(Slice(t, 1)), t)

\* the branch of a leading "@"
AtTarget(t) ==
    LET candidate == Trim(Slice(t, 1))
        id == ensureTargetId(candidate)
    IN  IF IsError(id) THEN id ELSE buildMessagingTarget("user", id.id, t)

\* NumericTarget building a channel target whatever the default kind is
NumericTarget_IgnoresDefault(t, options) ==
    IF options.defaultKind # NoKind
    THEN buildMessagingTarget("channel", t, t)
    ELSE AmbiguityError(t, options)

\* the branch of a digit-only string
NumericTarget(t, options) ==
    IF options.defaultKind # NoKind
    THEN buildMessagingTarget(options.defaultKind, t, t)
    ELSE AmbiguityError(t, options)

parseDiscordTarget(raw, options) ==
    LET t == Trim(raw)
    IN  IF t = Empty THEN Undefined
        ELSE IF MentionMatch(t) THEN buildMessagingTarget("user", MentionCapture(t), t)
        ELSE IF StartsWith(t, UserPrefix) THEN PrefixedTarget("user", t, UserPrefix)
        ELSE IF StartsWith(t, ChannelPrefix) THEN PrefixedTarget("channel", t, ChannelPrefix)
        ELSE IF StartsWith(t, DiscordPrefix) THEN PrefixedTarget("user", t, DiscordPrefix)
        ELSE IF StartsWith(t, AtSigil) THEN AtTarget(t)
        ELSE IF AllDigits(t) THEN NumericTarget(t, options)
        ELSE buildMessagingTarget("channel", t, t)

\* the options literal without its default kind
ChannelDefault_None == [defaultKind |-> NoKind, ambiguousMessage |-> Absent]

\* the options literal { defaultKind: "channel" }
ChannelDefault == [defaultKind |-> "channel", ambiguousMessage |-> Absent]

resolveDiscordChannelId(raw) ==
    LET target == parseDiscordTarget(raw, ChannelDefault)
    IN  IF IsError(target) THEN target ELSE requireTargetKind(target, "channel")

(***************************************************************************)
(* The resolver's syntax tests.                                            *)
(***************************************************************************)
safeParseDiscordTarget(input, options) ==
    LET parsed == parseDiscordTarget(input, options)
    IN  IF IsError(parsed) THEN Undefined ELSE parsed

isExplicitUserLookup(input, options) ==
    IF MentionMatch(input) THEN TRUE
    ELSE IF StartsWith(input, UserPrefix) \/ StartsWith(input, DiscordPrefix) THEN TRUE
    ELSE IF StartsWith(input, AtSigil) THEN TRUE
    ELSE IF AllDigits(input) THEN options.defaultKind = "user"
    ELSE FALSE

\* the numeric alternative anchored at both ends: /^[\d]+$/
EndsInDigit_OnlyDigits(s) == AllDigits(s)

\* /[\d]+$/ : the string ends in a digit
EndsInDigit(s) == s # Empty /\ IsDigit(s[Len(s)])

\* /^(user:|channel:|discord:|@|<@!?)|[\d]+$/
KnownFormat(s) ==
    \/ StartsWith(s, UserPrefix)
    \/ StartsWith(s, ChannelPrefix)
    \/ StartsWith(s, DiscordPrefix)
    \/ StartsWith(s, AtSigil)
    \/ StartsWith(s, MentionOpen)
    \/ EndsInDigit(s)

isLikelyUsername(input) == ~KnownFormat(input)

(***************************************************************************)
(* The disambiguator.                                                      *)
(***************************************************************************)
Null == <<"null">>

\* String.prototype.replace(/^prefix/, "") on a string
StripPrefix(s, p) == IF StartsWith(s, p) THEN Slice(s, Len(p)) ELSE s

\* String.prototype.replace(/^prefix/i, "") on a string
StripPrefixIgnoreCase(s, p) == IF StartsWith(ToLowerCase(s), p) THEN Slice(s, Len(p)) ELSE s

\* entry.kind === "user" && entry.id
IsUserEntry(entry) == entry.kind = "user" /\ entry.id # Absent /\ entry.id # Empty

NormalizedName(entry) ==
    IF entry.name = Absent THEN Absent ELSE ToLowerCase(Trim(entry.name))

NormalizedHandle(entry) ==
    IF entry.handle = Absent THEN Absent
    ELSE StripPrefix(ToLowerCase(Trim(entry.handle)), AtSigil)

NormalizedId(entry) ==
    IF entry.id = Absent THEN Absent
    ELSE StripPrefix(ToLowerCase(Trim(entry.id)), UserPrefix)

IsExactMatch(entry, normalizedQuery) ==
    \/ NormalizedName(entry) = normalizedQuery
    \/ NormalizedHandle(entry) = normalizedQuery
    \/ NormalizedId(entry) = normalizedQuery

\* entries.filter((entry) => entry.kind === "user" && entry.id), from position i on
RECURSIVE UsersFrom(_, _)
UsersFrom(entries, i) ==
    IF i > Len(entries) THEN <<>>
    ELSE IF IsUserEntry(entries[i]) THEN <<entries[i]>> \o UsersFrom(entries, i + 1)
    ELSE UsersFrom(entries, i + 1)

UsersOf(entries) == UsersFrom(entries, 1)

\* users.filter((entry) => ... === normalizedQuery), from position i on
RECURSIVE ExactMatchesFrom(_, _, _)
ExactMatchesFrom(users, normalizedQuery, i) ==
    IF i > Len(users) THEN <<>>
    ELSE IF IsExactMatch(users[i], normalizedQuery)
    THEN <<users[i]>> \o ExactMatchesFrom(users, normalizedQuery, i + 1)
    ELSE ExactMatchesFrom(users, normalizedQuery, i + 1)

ExactMatchesOf(query, entries) ==
    ExactMatchesFrom(UsersOf(entries), ToLowerCase(Trim(query)), 1)

\* the fallback taken on the length of the unfiltered list
SingleCandidate_PreFilter(entries, users) == IF Len(entries) = 1 THEN <<users[1]>> ELSE <<>>

\* the fallback of the selection: users.length === 1 ? users[0] : null
SingleCandidate(entries, users) == IF Len(users) = 1 THEN <<users[1]>> ELSE <<>>

\* the chosen entry as a list of zero or one entries
SelectedEntry(query, entries) ==
    LET users == UsersOf(entries)
        exactMatches == ExactMatchesOf(query, entries)
    IN  IF Len(users) = 0 THEN <<>>
        ELSE IF Len(exactMatches) = 1 THEN <<exactMatches[1]>>
        ELSE SingleCandidate(entries, users)

selectDiscordUserMatch(query, entries) ==
    LET selected == SelectedEntry(query, entries)
    IN  IF selected = <<>> THEN Null
        ELSE LET resolvedId == Trim(StripPrefixIgnoreCase(selected[1].id, UserPrefix))
             IN  IF resolvedId = Empty THEN Null ELSE resolvedId

(***************************************************************************)
(* Inputs: a raw recipient is optional leading white space, one of the     *)
(* markers (or none) and a body of at most MaxBody characters, closed by   *)
(* ">" for the mention wrappers.                                           *)
(***************************************************************************)
LeadPads == {Empty, <<" ">>}

Wrappers ==
    {<<Empty, Empty>>, <<UserPrefix, Empty>>, <<ChannelPrefix, Empty>>, <<DiscordPrefix, Empty>>,
     <<AtSigil, Empty>>, <<MentionOpen, Empty>>, <<MentionOpenBang, Empty>>,
     <<MentionOpen, <<">">> >>, <<MentionOpenBang, <<">">> >>}

BodyChars == {"7", "a", " "}

Bodies == UNION {[1..n -> BodyChars] : n \in 0..MaxBody}

RawInputs == {pad \o w[1] \o body \o w[2] : pad \in LeadPads, w \in Wrappers, body \in Bodies}

\* the caller's directory parameters; query and limit are optional fields of them
DirectoryParams == {[accountId |-> "default", query |-> <<"z">>, limit |-> 10]}

Entry(kind, id, name, handle) == [kind |-> kind, id |-> id, name |-> name, handle |-> handle]

\* the directory entries the directory may answer the resolver with
EntryPool ==
    {Entry("user", <<"U", "S", "E", "R", ":", "1", " ">>, <<"A">>, Absent),
     Entry("user", <<"2">>, Absent, <<"@", "a">>),
     Entry("channel", <<"3">>, <<"a">>, Absent),
     Entry("user", <<"u", "s", "e", "r", ":">>, Absent, Absent)}

DirectoryAnswers == UNION {[1..n -> EntryPool] : n \in 0..MaxEntries}

\* the failures of the directory call
DirectoryFailures == {Thrown("DirectoryError", <<"timeout">>), Thrown("DirectoryError", <<"denied">>)}

\* the queries and entry lists the disambiguator is exercised with on its own
SelectQueries == {<<"a">>, <<"A">>, <<" ", "a">>, <<"x">>, <<"@", "a">>, <<"7">>}

SelectPool ==
    EntryPool \cup
    {Entry("user", <<"4">>, <<" ", "a">>, Absent),
     Entry("user", <<"5">>, Absent, <<"@", "b">>),
     Entry("user", Absent, <<"a">>, Absent),
     Entry("user", Empty, <<"a">>, Absent),
     Entry("absent", <<"6">>, <<"a">>, Absent),
     Entry("user", <<"u", "s", "e", "r", ":", "7">>, Absent, Absent)}

SelectLists == UNION {[1..n -> SelectPool] : n \in 0..MaxList}

(***************************************************************************)
(* State.                                                                  *)
(***************************************************************************)
NoCall == [op |-> "none"]

NoRequest == [type |-> "none"]

NoResponse == [type |-> "none"]

NoResult == [type |-> "none"]

Init ==
    /\ pc = "idle"
    /\ call = NoCall
    /\ trimmed = Empty
    /\ result = NoResult
    /\ dirCalls = 0
    /\ dirRequest = NoRequest
    /\ dirResponse = NoResponse

\* parseDiscordTarget(raw, options) called by a caller
Parse(raw, options) ==
    /\ pc = "idle"
    /\ call' = [op |-> "parse", raw |-> raw, options |-> options]
    /\ trimmed' = Trim(raw)
    /\ result' = parseDiscordTarget(raw, options)
    /\ pc' = "done"
    /\ UNCHANGED <<dirCalls, dirRequest, dirResponse>>

\* resolveDiscordChannelId(raw) called by a caller
ResolveChannelId(raw) ==
    /\ pc = "idle"
    /\ call' = [op |-> "resolveChannelId", raw |-> raw]
    /\ trimmed' = Trim(raw)
    /\ result' = resolveDiscordChannelId(raw)
    /\ pc' = "done"
    /\ UNCHANGED <<dirCalls, dirRequest, dirResponse>>

\* the limit passed to the directory
DirectoryLimit == 5

\* the spread written last: { query: trimmed, limit: 5, ...options }
DirectoryRequest_CallerWins(params, t) ==
    [type |-> "request", accountId |-> params.accountId, query |-> params.query,
     limit |-> params.limit]

\* { ...options, query: trimmed, limit: 5 }
DirectoryRequest(params, t) ==
    [type |-> "request", accountId |-> params.accountId, query |-> t, limit |-> DirectoryLimit]

\* the marker that resolveDiscordTarget goes on to ask the directory
Lookup == [type |-> "lookup"]

\* ResolveBeforeLookup without the early return of a parsed user target
ResolveBeforeLookup_NoBypass(raw, options) ==
    LET t == Trim(raw)
        likelyUsername == isLikelyUsername(t)
        shouldLookup == isExplicitUserLookup(t, options) \/ likelyUsername
        directParse == safeParseDiscordTarget(t, options)
    IN  IF t = Empty THEN Undefined
        ELSE IF ~shouldLookup
        THEN IF directParse # Undefined THEN directParse ELSE parseDiscordTarget(t, options)
        ELSE Lookup

\* ResolveBeforeLookup returning the swallowed parse instead of the strict one
ResolveBeforeLookup_NoStrictParse(raw, options) ==
    LET t == Trim(raw)
        likelyUsername == isLikelyUsername(t)
        shouldLookup == isExplicitUserLookup(t, options) \/ likelyUsername
        directParse == safeParseDiscordTarget(t, options)
    IN  IF t = Empty THEN Undefined
        ELSE IF IsTarget(directParse) /\ directParse.kind # "channel" /\ ~likelyUsername
        THEN directParse
        ELSE IF ~shouldLookup THEN directParse
        ELSE Lookup

\* the part of resolveDiscordTarget before the directory call: the value it
\* completes with, or Lookup
ResolveBeforeLookup(raw, options) ==
    LET t == Trim(raw)
        likelyUsername == isLikelyUsername(t)
        shouldLookup == isExplicitUserLookup(t, options) \/ likelyUsername
        directParse == safeParseDiscordTarget(t, options)
    IN  IF t = Empty THEN Undefined
        ELSE IF IsTarget(directParse) /\ directParse.kind # "channel" /\ ~likelyUsername
        THEN directParse
        ELSE IF ~shouldLookup
        THEN IF directParse # Undefined THEN directParse ELSE parseDiscordTarget(t, options)
        ELSE Lookup

\* ResolveAfterLookup echoing the resolved id as the target's raw
ResolveAfterLookup_RawFromDirectory(t, directoryEntries) ==
    LET selected == selectDiscordUserMatch(t, directoryEntries)
    IN  IF selected = Null
        THEN IF Len(directoryEntries) = 0
             THEN Thrown("NoMatch", t)
             ELSE Thrown("MultipleMatched", t)
        ELSE buildMessagingTarget("user", selected, selected)

\* ResolveAfterLookup resolving to undefined when nothing was selected
ResolveAfterLookup_UndefinedWhenNone(t, directoryEntries) ==
    LET selected == selectDiscordUserMatch(t, directoryEntries)
    IN  IF selected = Null
        THEN IF Len(directoryEntries) = 0
             THEN Thrown("NoMatch", t)
             ELSE Undefined
        ELSE buildMessagingTarget("user", selected, t)

\* the part of resolveDiscordTarget after the directory answered
ResolveAfterLookup(t, directoryEntries) ==
    LET selected == selectDiscordUserMatch(t, directoryEntries)
    IN  IF selected = Null
        THEN IF Len(directoryEntries) = 0
             THEN Thrown("NoMatch", t)
             ELSE Thrown("MultipleMatched", t)
        ELSE buildMessagingTarget("user", selected, t)

\* resolveDiscordTarget(raw, params, options) called, up to its return or its await
Resolve(raw, params, options) ==
    LET before == ResolveBeforeLookup(raw, options)
    IN  /\ pc = "idle"
        /\ call' = [op |-> "resolve", raw |-> raw, params |-> params, options |-> options]
        /\ trimmed' = Trim(raw)
        /\ IF before = Lookup
           THEN /\ pc' = "awaiting"
                /\ dirCalls' = dirCalls + 1
                /\ dirRequest' = DirectoryRequest(params, Trim(raw))
                /\ UNCHANGED result
           ELSE /\ pc' = "done"
                /\ result' = before
                /\ UNCHANGED <<dirCalls, dirRequest>>
        /\ UNCHANGED dirResponse

\* the directory answers and resolveDiscordTarget runs to its end
DirectoryAnswer(entries) ==
    /\ pc = "awaiting"
    /\ dirResponse' = [type |-> "entries", entries |-> entries]
    /\ result' = ResolveAfterLookup(trimmed, entries)
    /\ pc' = "done"
    /\ UNCHANGED <<call, trimmed, dirCalls, dirRequest>>

\* the directory call rejects: the await rethrows
DirectoryFail(failure) ==
    /\ pc = "awaiting"
    /\ dirResponse' = [type |-> "failure", error |-> failure]
    /\ result' = failure
    /\ pc' = "done"
    /\ UNCHANGED <<call, trimmed, dirCalls, dirRequest>>

\* the caller has the outcome; nothing is kept for the next call
Return ==
    /\ pc = "done"
    /\ pc' = "idle"
    /\ call' = NoCall
    /\ trimmed' = Empty
    /\ result' = NoResult
    /\ dirCalls' = 0
    /\ dirRequest' = NoRequest
    /\ dirResponse' = NoResponse

\* selectDiscordUserMatch(query, entries) applied on its own
Select(query, entries) ==
    /\ pc = "idle"
    /\ call' = [op |-> "select", query |-> query, entries |-> entries]
    /\ trimmed' = Empty
    /\ result' = Returned(selectDiscordUserMatch(query, entries))
    /\ pc' = "done"
    /\ UNCHANGED <<dirCalls, dirRequest, dirResponse>>

\* the entry points wait for a caller; the continuation waits for the directory
Idle == pc = "idle"

Awaiting == pc = "awaiting"

Next ==
    \/ Idle /\ \E raw \in RawInputs, options \in ParseOptions : Parse(raw, options)
    \/ Idle /\ \E raw \in RawInputs : ResolveChannelId(raw)
    \/ Idle /\ \E raw \in RawInputs, params \in DirectoryParams, options \in ParseOptions :
          Resolve(raw, params, options)
    \/ Awaiting /\ \E entries \in DirectoryAnswers : DirectoryAnswer(entries)
    \/ Awaiting /\ \E failure \in DirectoryFailures : DirectoryFail(failure)
    \/ Return

Spec == Init /\ [][Next]_vars

NextSelect ==
    \/ Idle /\ \E query \in SelectQueries, entries \in SelectLists : Select(query, entries)
    \/ Return

SpecSelect == Init /\ [][NextSelect]_vars

(***************************************************************************)
(* Vocabulary of the properties.                                           *)
(***************************************************************************)
Done(op) == pc = "done" /\ call.op = op

Called(op) == pc # "idle" /\ call.op = op

\* what a caller observes of a result: the target's kind and id, or the error raised
Outcome(r) ==
    IF IsTarget(r) THEN <<"target", r.kind, r.id>>
    ELSE IF IsError(r) THEN <<"error", r.name>>
    ELSE <<r.type>>

\* an input written in an explicit form: a mention wrapper, a prefix, or the @ sigil
ExplicitForm(t) ==
    \/ MentionMatch(t)
    \/ StartsWith(t, UserPrefix)
    \/ StartsWith(t, ChannelPrefix)
    \/ StartsWith(t, DiscordPrefix)
    \/ StartsWith(t, AtSigil)

(***************************************************************************)
(* C1                                                                      *)
(***************************************************************************)
\* C1: for a digit-only string s (after trimming), parse with no defaultKind throws
\* the ambiguity error (the caller's ambiguousMessage when set, else the generic
\* message naming s) and builds no target; with defaultKind = k it returns a
\* target of kind k with id = s.
C1_BareNumeric ==
    (Done("parse") /\ AllDigits(Trim(call.raw))) =>
        IF call.options.defaultKind = NoKind
        THEN /\ IsError(result)
             /\ result.name = "Ambiguous"
             /\ result.msg = IF call.options.ambiguousMessage # Absent
                             THEN <<"custom", call.options.ambiguousMessage>>
                             ELSE <<"generic", Trim(call.raw)>>
        ELSE /\ IsTarget(result)
             /\ result.kind = call.options.defaultKind
             /\ result.id = Trim(call.raw)

C1_Witness ==
    /\ Done("parse")
    /\ call.raw = <<" ", "7", "7">>
    /\ call.options.defaultKind = NoKind
    /\ call.options.ambiguousMessage = CustomMessage
    /\ IsError(result)

(***************************************************************************)
(* C2                                                                      *)
(***************************************************************************)
\* the first rule of the ordered list that matches the trimmed input
FirstRule(t) ==
    IF t = Empty THEN 1
    ELSE IF MentionMatch(t) THEN 2
    ELSE IF StartsWith(t, UserPrefix) THEN 3
    ELSE IF StartsWith(t, ChannelPrefix) THEN 4
    ELSE IF StartsWith(t, DiscordPrefix) THEN 5
    ELSE IF StartsWith(t, AtSigil) THEN 6
    ELSE IF AllDigits(t) THEN 7
    ELSE 8

Remainder(t, marker) == Trim(Slice(t, Len(marker)))

\* the outcome a rule prescribes; emptyIsUndefined says whether rules 4 and 5
\* give undefined for an empty remainder, as rule 3 does
RuleOutcome(t, options, emptyIsUndefined) ==
    CASE FirstRule(t) = 1 -> <<"undefined">>
      [] FirstRule(t) = 2 -> <<"target", "user", MentionCapture(t)>>
      [] FirstRule(t) = 3 ->
            IF Remainder(t, UserPrefix) = Empty THEN <<"undefined">>
            ELSE <<"target", "user", Remainder(t, UserPrefix)>>
      [] FirstRule(t) = 4 ->
            IF emptyIsUndefined /\ Remainder(t, ChannelPrefix) = Empty THEN <<"undefined">>
            ELSE <<"target", "channel", Remainder(t, ChannelPrefix)>>
      [] FirstRule(t) = 5 ->
            IF emptyIsUndefined /\ Remainder(t, DiscordPrefix) = Empty THEN <<"undefined">>
            ELSE <<"target", "user", Remainder(t, DiscordPrefix)>>
      [] FirstRule(t) = 6 ->
            IF AllDigits(Remainder(t, AtSigil))
            THEN <<"target", "user", Remainder(t, AtSigil)>>
            ELSE <<"error", "InvalidMentionFormat">>
      [] FirstRule(t) = 7 ->
            IF options.defaultKind # NoKind
            THEN <<"target", options.defaultKind, t>>
            ELSE <<"error", "Ambiguous">>
      [] FirstRule(t) = 8 -> <<"target", "channel", t>>

\* C2 as stated: parse classifies by the first matching rule, where the prefix
\* channel: always gives a channel target and the prefix discord: always a user
\* target, with id = the remainder.
C2_AsStated ==
    Done("parse") => Outcome(result) = RuleOutcome(Trim(call.raw), call.options, FALSE)

\* C2 (amended): parse classifies by the first matching rule of the ordered list;
\* the prefixes user:, channel: and discord: give a target with id = the trimmed
\* remainder and undefined when the remainder is empty; a leading @ gives a user
\* target for an all-digit remainder and the invalid-mention-format error
\* otherwise; anything else gives a channel target with id = the trimmed string.
C2_FirstRuleWins ==
    Done("parse") => Outcome(result) = RuleOutcome(Trim(call.raw), call.options, TRUE)

C2_Witness ==
    /\ Done("parse")
    /\ Trim(call.raw) = ChannelPrefix
    /\ result = Undefined

(***************************************************************************)
(* C3                                                                      *)
(***************************************************************************)
\* C3 as stated: resolve never queries the directory for an input written in an
\* explicit form.
C3_AsStated ==
    (Called("resolve") /\ ExplicitForm(Trim(call.raw))) => dirCalls = 0

\* C3 (amended): resolve never queries the directory for an input written in an
\* explicit form that parses to a target: it completes with that target and no
\* directory call.
C3_ExplicitBypass ==
    (Called("resolve") /\ ExplicitForm(Trim(call.raw))
        /\ RuleOutcome(Trim(call.raw), call.options, TRUE)[1] = "target") =>
        /\ dirCalls = 0
        /\ pc = "done"
        /\ dirRequest = NoRequest
        /\ Outcome(result) = RuleOutcome(Trim(call.raw), call.options, TRUE)

C3_Witness ==
    /\ Done("resolve")
    /\ Trim(call.raw) = UserPrefix \o <<"7">>
    /\ Outcome(result) = <<"target", "user", <<"7">> >>
    /\ dirCalls = 0

(***************************************************************************)
(* C4                                                                      *)
(***************************************************************************)
\* C4 as stated: the raw of a target returned by parse or resolve is the input
\* string passed to the call, white space included.
C4_AsStated ==
    ((Done("parse") \/ Done("resolve")) /\ IsTarget(result)) => result.raw = call.raw

\* C4 (amended): the raw of a target returned by parse or resolve is the trimmed
\* input string, never a name or id taken from the directory.
C4_RawIsTrimmedInput ==
    ((Done("parse") \/ Done("resolve")) /\ IsTarget(result)) => result.raw = Trim(call.raw)

C4_Witness ==
    /\ Done("resolve")
    /\ dirResponse.type = "entries"
    /\ IsTarget(result)
    /\ call.raw # Trim(call.raw)
    /\ result.raw = Trim(call.raw)
    /\ result.id # result.raw

(***************************************************************************)
(* C5                                                                      *)
(***************************************************************************)
\* the positions of the entries with kind "user" and a present id
UserPositions(entries) == {i \in 1..Len(entries) : IsUserEntry(entries[i])}

\* the positions of the user entries that match the query exactly
ExactPositions(query, entries) ==
    {i \in UserPositions(entries) : IsExactMatch(entries[i], ToLowerCase(Trim(query)))}

\* the id the disambiguator gives for a chosen entry
ChosenId(entry) ==
    LET id == Trim(StripPrefixIgnoreCase(entry.id, UserPrefix))
    IN  IF id = Empty THEN Null ELSE id

\* the rule of the disambiguator, the fallback taken when candidates has one member
SelectionRule(query, entries, candidates) ==
    IF UserPositions(entries) = {} THEN Null
    ELSE IF Cardinality(ExactPositions(query, entries)) = 1
    THEN ChosenId(entries[CHOOSE i \in ExactPositions(query, entries) : TRUE])
    ELSE IF Cardinality(candidates) = 1
    THEN ChosenId(entries[CHOOSE i \in UserPositions(entries) : TRUE])
    ELSE Null

\* C5 as stated: without a unique exact match an entry is chosen only if the
\* pre-filter candidate set (all entries the directory returned) has exactly one
\* member.
C5_AsStated ==
    (Done("select") /\ Cardinality(ExactPositions(call.query, call.entries)) # 1
        /\ result.id # Null) => Len(call.entries) = 1

\* C5 (amended): among the entries with kind "user" and a present id, a unique
\* exact match on name, handle or id is chosen; otherwise an entry is chosen
\* exactly when that filtered set has exactly one member, and it is that member;
\* otherwise the result is null.
C5_SelectionRule ==
    Done("select") =>
        result.id = SelectionRule(call.query, call.entries, UserPositions(call.entries))

C5_Witness ==
    /\ Done("select")
    /\ Len(call.entries) = 2
    /\ Cardinality(UserPositions(call.entries)) = 1
    /\ ExactPositions(call.query, call.entries) = {}
    /\ result.id # Null

C7_ChannelId ==
    Done("resolveChannelId") =>
        LET t == Trim(call.raw)
            expected == RuleOutcome(t, [defaultKind |-> "channel", ambiguousMessage |-> Absent], TRUE)
        IN  /\ (result.type = "id") <=> (expected[1] = "target" /\ expected[2] = "channel")
            /\ result.type = "id" => result.id = expected[3]
            /\ AllDigits(t) => result = Returned(t)
            /\ ((expected[1] = "target" /\ expected[2] = "user") \/ t = Empty) =>
                 result = Thrown("KindMismatch", <<"Discord", "channel">>)
            /\ result.type \in {"id", "error"}

C7_Witness ==
    /\ Done("resolveChannelId")
    /\ Trim(call.raw) = <<"7", "7">>
    /\ result = Returned(<<"7", "7">>)

(***************************************************************************)
(* C8                                                                      *)
(***************************************************************************)
\* C8: in one resolve call the directory is queried at most once, with query =
\* the trimmed input and limit = 5; once it has answered or failed the call is
\* over, and a failure of the directory call is the outcome of the call,
\* unchanged.
C8_SingleQuery ==
    /\ dirCalls <= 1
    /\ dirCalls = 1 =>
         /\ Called("resolve")
         /\ dirRequest.type = "request"
         /\ dirRequest.query = Trim(call.raw)
         /\ dirRequest.limit = 5
    /\ pc = "awaiting" => (dirCalls = 1 /\ dirResponse = NoResponse)
    /\ dirResponse.type # "none" => (pc = "done" /\ dirCalls = 1)
    /\ dirResponse.type = "failure" =>
         (result = dirResponse.error /\ dirResponse.error \in DirectoryFailures)

C8_Witness ==
    /\ Done("resolve")
    /\ dirCalls = 1
    /\ dirResponse.type = "failure"
    /\ result = dirResponse.error

(***************************************************************************)
(* C9                                                                      *)
(***************************************************************************)
\* C9: for an input for which neither isExplicitUserLookup nor likelyUsername
\* holds, resolve makes no directory query and its outcome is the outcome of the
\* strict parse of the trimmed input with the same options; a digit-only input
\* with no defaultKind is rejected with the ambiguity error, and with defaultKind
\* = "channel" it gives the channel target.
C9_NoLookupIsStrictParse ==
    (Called("resolve")
        /\ ~isExplicitUserLookup(Trim(call.raw), call.options)
        /\ ~isLikelyUsername(Trim(call.raw))) =>
        /\ dirCalls = 0
        /\ pc = "done"
        /\ Outcome(result) = RuleOutcome(Trim(call.raw), call.options, TRUE)
        /\ IsTarget(result) => result.raw = Trim(call.raw)
        /\ (AllDigits(Trim(call.raw)) /\ call.options.defaultKind = NoKind) =>
             result = AmbiguityError(Trim(call.raw), call.options)
        /\ (AllDigits(Trim(call.raw)) /\ call.options.defaultKind = "channel") =>
             Outcome(result) = <<"target", "channel", Trim(call.raw)>>

C9_Witness ==
    /\ Done("resolve")
    /\ AllDigits(Trim(call.raw))
    /\ call.options.defaultKind = NoKind
    /\ Outcome(result) = <<"error", "Ambiguous">>
    /\ dirCalls = 0

(***************************************************************************)
(* C10                                                                     *)
(***************************************************************************)
\* the trimmed inputs for which resolve asks the directory
QueriedForm(t) ==
    \/ /\ t # Empty
       /\ ~StartsWith(t, UserPrefix)
       /\ ~StartsWith(t, ChannelPrefix)
       /\ ~StartsWith(t, DiscordPrefix)
       /\ ~StartsWith(t, AtSigil)
       /\ ~StartsWith(t, MentionOpen)
       /\ ~IsDigit(t[Len(t)])
    \/ StartsWith(t, AtSigil) /\ ~AllDigits(Trim(Slice(t, 1)))
    \/ t = UserPrefix
    \/ t = DiscordPrefix

====
